---- MODULE Spec2Model ----
(***************************************************************************)
(* Reverse-mode (adjoint) algorithmic differentiation on a tape, and the   *)
(* backtracking gradient-descent minimizer, of example.js.                 *)
(*                                                                         *)
(* Numbers.  The program computes in IEEE-754 doubles.  The model keeps    *)
(* what the program's behaviour rests on: finite precision with rounding   *)
(* to nearest (ties to even), underflow to zero, overflow to Infinity,     *)
(* NaN and its comparison rules, and JavaScript's undefined.  A finite     *)
(* number is a multiple of 1/Q: [k |-> "num", v |-> n] stands for n/Q.     *)
(***************************************************************************)
EXTENDS Integers, Sequences, FiniteSets, TLC

\* ---------------------------------------------------------------- bounds
\* Grid resolution: a finite number is n/Q.
Q == 8
\* Largest finite magnitude (in grid units); beyond it a result is Infinity.
FMax == 40000
\* Constructors are called only while the tape holds fewer nodes than this.
MaxNodes == 3
\* aad_calc_derivs is called at most this often between two aad_begin calls.
MaxCalcs == 1
\* The largest max_iter a call of gradient_descent_minimize is given.
MaxIter == 3
\* The history counters f_calls and rejects stop counting here.
CallCap == 12
RejectCap == 6

\* ------------------------------------------------------- number system
Num(n) == [k |-> "num", v |-> n]
NaN == [k |-> "nan", v |-> 0]
PosInf == [k |-> "inf", v |-> 1]
NegInf == [k |-> "inf", v |-> -1]
Undefined == [k |-> "undef", v |-> 0]
Zero == Num(0)
One == Num(Q)

IsNum(a) == a.k = "num"
IsInf(a) == a.k = "inf"
\* isNaN(x): ToNumber(undefined) is NaN
isNaN(a) == a.k = "nan" \/ a.k = "undef"

IntAbs(n) == IF n < 0 THEN -n ELSE n
Sign(n) == IF n < 0 THEN -1 ELSE IF n > 0 THEN 1 ELSE 0
SignOf(a) == Sign(a.v)
InfOf(s) == IF s < 0 THEN NegInf ELSE PosInf

\* n/d rounded to the nearest integer, ties to the even one (d # 0).
RoundDiv(n, d) ==
    LET dd == IntAbs(d)
        nn == IF d < 0 THEN -n ELSE n
        q == nn \div dd
        r == nn - q * dd
    IN  IF 2 * r < dd THEN q
        ELSE IF 2 * r > dd THEN q + 1
        ELSE IF q % 2 = 0 THEN q ELSE q + 1

\* A rounded result, overflowing to +-Infinity.
Finite(n) == IF IntAbs(n) > FMax THEN InfOf(n) ELSE Num(n)

f_neg(a) ==
    IF isNaN(a) THEN NaN
    ELSE IF IsInf(a) THEN InfOf(-a.v)
    ELSE Num(-a.v)

\* a + b
f_add(a, b) ==
    IF isNaN(a) \/ isNaN(b) THEN NaN
    ELSE IF IsInf(a) /\ IsInf(b) THEN (IF a.v = b.v THEN a ELSE NaN)
    ELSE IF IsInf(a) THEN a
    ELSE IF IsInf(b) THEN b
    ELSE Finite(a.v + b.v)

\* a - b
f_sub(a, b) == f_add(a, f_neg(b))

\* a * b
f_mul(a, b) ==
    IF isNaN(a) \/ isNaN(b) THEN NaN
    ELSE IF IsInf(a) \/ IsInf(b)
         THEN (IF SignOf(a) = 0 \/ SignOf(b) = 0 THEN NaN
               ELSE InfOf(SignOf(a) * SignOf(b)))
    ELSE Finite(RoundDiv(a.v * b.v, Q))

\* a / b
f_div(a, b) ==
    IF isNaN(a) \/ isNaN(b) THEN NaN
    ELSE IF IsInf(a) /\ IsInf(b) THEN NaN
    ELSE IF IsInf(a) THEN InfOf(a.v * (IF SignOf(b) < 0 THEN -1 ELSE 1))
    ELSE IF IsInf(b) THEN Zero
    ELSE IF b.v = 0 THEN (IF a.v = 0 THEN NaN ELSE InfOf(a.v))
    ELSE Finite(RoundDiv(a.v * Q, b.v))

\* a times the decimal literal n/d (.5, 1.1, .1), rounded once.
f_scale(a, n, d) ==
    IF isNaN(a) THEN NaN
    ELSE IF IsInf(a) THEN a
    ELSE Finite(RoundDiv(a.v * n, d))

\* The order of the extended reals; every comparison with NaN is false.
Rank(a) == IF IsInf(a) THEN a.v * (FMax + 1) ELSE a.v
f_lt(a, b) == ~isNaN(a) /\ ~isNaN(b) /\ Rank(a) < Rank(b)
f_le(a, b) == ~isNaN(a) /\ ~isNaN(b) /\ Rank(a) <= Rank(b)
f_gt(a, b) == f_lt(b, a)
f_ge(a, b) == f_le(b, a)
\* a == b
f_eq(a, b) == ~isNaN(a) /\ ~isNaN(b) /\ Rank(a) = Rank(b)

\* Math.abs
f_abs(a) ==
    IF isNaN(a) THEN NaN
    ELSE IF IsInf(a) THEN PosInf
    ELSE Num(IntAbs(a.v))

\* Math.max
Math_max(a, b) ==
    IF isNaN(a) \/ isNaN(b) THEN NaN
    ELSE IF Rank(a) >= Rank(b) THEN a ELSE b

\* Math.exp and Math.log, on the arguments whose result is on the grid for
\* every Q: exp(0) = 1, exp(-Infinity) = 0, log(1) = 0, log(0) = -Infinity,
\* log(x < 0) = NaN.  The calls of the model are bounded to these arguments.
ExpArg(a) == ~IsNum(a) \/ a.v = 0
LogArg(a) == ~IsNum(a) \/ a.v <= 0 \/ a.v = Q

Math_exp(a) ==
    IF isNaN(a) THEN NaN
    ELSE IF IsInf(a) THEN (IF a.v > 0 THEN PosInf ELSE Zero)
    ELSE One

Math_log(a) ==
    IF isNaN(a) THEN NaN
    ELSE IF IsInf(a) THEN (IF a.v > 0 THEN PosInf ELSE NaN)
    ELSE IF a.v < 0 THEN NaN
    ELSE IF a.v = 0 THEN NegInf
    ELSE Zero

\* The integer nearest to the square root of n >= 0.
ISqrt(n) ==
    LET r == CHOOSE r \in 0..n : r * r <= n /\ (r + 1) * (r + 1) > n
    IN  IF n - r * r > r THEN r + 1 ELSE r

\* Math.sqrt
Math_sqrt(a) ==
    IF isNaN(a) THEN NaN
    ELSE IF IsInf(a) THEN (IF a.v > 0 THEN PosInf ELSE NaN)
    ELSE IF a.v < 0 THEN NaN
    ELSE Num(ISqrt(a.v * Q))


\* ------------------------------------------------------------------ state
VARIABLES
    aad_stack,  \* the tape: the nodes created since aad_begin, in creation order
    calcs,      \* aad_calc_derivs calls since aad_begin
    arith,      \* history: only aad_const/add/sub/mul were called since aad_begin
    last,       \* history: the last engine call, its operands and its outcome
    pc,         \* gradient_descent_minimize: position in the function
    f_det,      \* the objective is a function of its argument alone
    f_tab,      \* the values the objective has returned, by argument
    guess, max_iter,
    iter, step, x, y, dy, norm, new_x, new_y,
    y_guess,    \* history: the objective at guess
    f_calls,    \* history: calls of the objective
    outer,      \* history: evaluations at the current point
    moves,      \* history: assignments x = new_x
    rejects,    \* history: rejected trials of the current line search
    mlast       \* history: the last step of the minimizer

engine_vars == <<aad_stack, calcs, arith, last>>
min_vars == <<pc, f_det, f_tab, guess, max_iter, iter, step, x, y, dy, norm,
              new_x, new_y, y_guess, f_calls, outer, moves, rejects, mlast>>
vars == <<aad_stack, calcs, arith, last, pc, f_det, f_tab, guess, max_iter,
          iter, step, x, y, dy, norm, new_x, new_y, y_guess, f_calls, outer,
          moves, rejects, mlast>>

\* --------------------------------------------------------- autodiff engine
\* A node holds references to its parents; on the tape a reference is the
\* parent's position.  Operands are nodes of the current session (mixing
\* sessions is the caller's error), so every reference is a tape position.
Node(val, ps, dds) ==
    [value |-> val, parents |-> ps, ddparents |-> dds, derivative |-> Undefined]

\* What a call leaves: the tape, the returned node, whether it threw.
Returned(st, n) == [st |-> st, ret |-> n, threw |-> FALSE]
Thrown(st) == [st |-> st, ret |-> 0, threw |-> TRUE]

\* push with a fault: the node goes to the front of the tape (unshift).
push_front(st, node) == <<node>> \o st

\* aad_stack.push(node)
push(st, node) == Append(st, node)

aad_const(st, c) ==
    Returned(push(st, Node(c, <<>>, <<>>)), Len(st) + 1)

aad_add(st, n1, n2) ==
    Returned(push(st, Node(f_add(st[n1].value, st[n2].value),
                           <<n1, n2>>, <<One, One>>)), Len(st) + 1)

aad_sub(st, n1, n2) ==
    Returned(push(st, Node(f_sub(st[n1].value, st[n2].value),
                           <<n1, n2>>, <<One, f_neg(One)>>)), Len(st) + 1)

aad_mul(st, n1, n2) ==
    Returned(push(st, Node(f_mul(st[n1].value, st[n2].value),
                           <<n1, n2>>, <<st[n2].value, st[n1].value>>)),
             Len(st) + 1)

\* aad_div with a fault: the divisor is tested after the node is recorded.
aad_div_checks_late(st, n1, n2) ==
    LET r == Returned(push(st, Node(f_div(st[n1].value, st[n2].value),
                    <<n1, n2>>,
                    <<f_div(One, st[n2].value),
                      f_div(f_neg(st[n1].value),
                            f_mul(st[n2].value, st[n2].value))>>)),
                  Len(st) + 1)
    IN  IF f_eq(st[n2].value, Zero) THEN Thrown(r.st) ELSE r

aad_div(st, n1, n2) ==
    IF f_eq(st[n2].value, Zero) THEN Thrown(st)
    ELSE Returned(push(st, Node(f_div(st[n1].value, st[n2].value),
                    <<n1, n2>>,
                    <<f_div(One, st[n2].value),
                      f_div(f_neg(st[n1].value),
                            f_mul(st[n2].value, st[n2].value))>>)),
                  Len(st) + 1)

aad_exp(st, n) ==
    LET e == Math_exp(st[n].value)
    IN  IF isNaN(e) THEN Thrown(st)
        ELSE Returned(push(st, Node(e, <<n>>, <<e>>)), Len(st) + 1)

aad_log(st, n) ==
    LET l == Math_log(st[n].value)
    IN  IF isNaN(l) THEN Thrown(st)
        ELSE Returned(push(st, Node(l, <<n>>, <<f_div(One, st[n].value)>>)),
                      Len(st) + 1)

\* aad_pow with a fault: no short-circuit for a zero base.
aad_pow_no_shortcut(st, n1, n2) ==
    LET l == aad_log(st, n1)
    IN  IF l.threw THEN l
        ELSE LET m == aad_mul(l.st, n2, l.ret)
             IN  aad_exp(m.st, m.ret)

aad_pow(st, n1, n2) ==
    IF f_eq(st[n1].value, Zero) THEN aad_const(st, Zero)
    ELSE LET l == aad_log(st, n1)
         IN  IF l.threw THEN l
             ELSE LET m == aad_mul(l.st, n2, l.ret)
                  IN  aad_exp(m.st, m.ret)

aad_max(st, n1, n2) ==
    LET ge == f_ge(st[n1].value, st[n2].value)
    IN  Returned(push(st, Node(Math_max(st[n1].value, st[n2].value),
                    <<n1, n2>>,
                    <<IF ge THEN One ELSE Zero, IF ge THEN Zero ELSE One>>)),
                 Len(st) + 1)

\* (parent.derivative || 0): undefined, NaN and 0 are falsy.
OrZero(d) == IF isNaN(d) \/ f_eq(d, Zero) THEN Zero ELSE d

\* The inner loop of aad_calc_derivs over the parents i.. of node n.
RECURSIVE ChainRule(_, _, _)
ChainRule(st, n, i) ==
    IF i > Len(st[n].parents) THEN st
    ELSE LET p == st[n].parents[i]
             d == f_add(OrZero(st[p].derivative),
                        f_mul(st[n].ddparents[i], st[n].derivative))
         IN  ChainRule([st EXCEPT ![p].derivative = d], n, i + 1)

\* The outer loop of aad_calc_derivs: nodes n, n - 1, ..., stop.
RECURSIVE Walk(_, _, _)
Walk(st, n, stop) ==
    IF n < stop THEN st ELSE Walk(ChainRule(st, n, 1), n - 1, stop)

\* aad_stack[aad_stack.length - 1].derivative = 1
Seed(st) == [st EXCEPT ![Len(st)].derivative = One]

\* aad_calc_derivs with a fault: the walk takes the nodes off the tape (pop).
aad_calc_derivs_pops(st) ==
    IF Len(st) = 0 THEN Thrown(st)
    ELSE Returned(SubSeq(Walk(Seed(st), Len(st), 1), 1, 0), 0)

aad_calc_derivs(st) ==
    IF Len(st) = 0 THEN Thrown(st)   \* TypeError: aad_stack[-1] is undefined
    ELSE Returned(Walk(Seed(st), Len(st), 1), 0)

\* ------------------------------------------------------- engine actions
Consts == {Zero, One}
Room == Len(aad_stack) < MaxNodes
Nodes == 1..Len(aad_stack)

Call(op, a, b, r) ==
    /\ aad_stack' = r.st
    /\ last' = [op |-> op, a |-> a, b |-> b, threw |-> r.threw, ret |-> r.ret]
    /\ arith' = (arith /\ op \in {"const", "add", "sub", "mul", "calc"})
    /\ UNCHANGED min_vars

aad_begin ==
    /\ aad_stack' = <<>>
    /\ calcs' = 0
    /\ arith' = TRUE
    /\ last' = [op |-> "begin", a |-> 0, b |-> 0, threw |-> FALSE, ret |-> 0]
    /\ UNCHANGED min_vars

CallConst(c) ==
    Room /\ Call("const", 0, 0, aad_const(aad_stack, c)) /\ UNCHANGED calcs

CallAdd(a, b) ==
    Room /\ Call("add", a, b, aad_add(aad_stack, a, b)) /\ UNCHANGED calcs

CallSub(a, b) ==
    Room /\ Call("sub", a, b, aad_sub(aad_stack, a, b)) /\ UNCHANGED calcs

CallMul(a, b) ==
    Room /\ Call("mul", a, b, aad_mul(aad_stack, a, b)) /\ UNCHANGED calcs

CallDiv(a, b) ==
    Room /\ Call("div", a, b, aad_div(aad_stack, a, b)) /\ UNCHANGED calcs

CallExp(a) ==
    /\ Room /\ ExpArg(aad_stack[a].value)
    /\ Call("exp", a, 0, aad_exp(aad_stack, a)) /\ UNCHANGED calcs

CallLog(a) ==
    /\ Room /\ LogArg(aad_stack[a].value)
    /\ Call("log", a, 0, aad_log(aad_stack, a)) /\ UNCHANGED calcs

CallPow(a, b) ==
    /\ Room /\ LogArg(aad_stack[a].value)
    /\ Call("pow", a, b, aad_pow(aad_stack, a, b)) /\ UNCHANGED calcs

CallMax(a, b) ==
    Room /\ Call("max", a, b, aad_max(aad_stack, a, b)) /\ UNCHANGED calcs

CallCalcDerivs ==
    /\ calcs < MaxCalcs
    /\ calcs' = calcs + 1
    /\ Call("calc", 0, 0, aad_calc_derivs(aad_stack))

MinIdle ==
    /\ pc = "off" /\ f_det = TRUE /\ f_tab = <<>> /\ guess = <<>>
    /\ max_iter = 0 /\ iter = 0 /\ step = Zero /\ x = <<>> /\ y = Zero
    /\ dy = <<>> /\ norm = Zero /\ new_x = <<>> /\ new_y = Zero
    /\ y_guess = Zero /\ f_calls = 0 /\ outer = 0 /\ moves = 0
    /\ rejects = 0 /\ mlast = "none"

\* The state after the script's first aad_begin().
Init ==
    /\ aad_stack = <<>>
    /\ calcs = 0
    /\ arith = TRUE
    /\ last = [op |-> "begin", a |-> 0, b |-> 0, threw |-> FALSE, ret |-> 0]
    /\ MinIdle

Next ==
    \/ aad_begin
    \/ \E c \in Consts : CallConst(c)
    \/ \E a, b \in Nodes : CallAdd(a, b)
    \/ \E a, b \in Nodes : CallSub(a, b)
    \/ \E a, b \in Nodes : CallMul(a, b)
    \/ \E a, b \in Nodes : CallDiv(a, b)
    \/ \E a \in Nodes : CallExp(a)
    \/ \E a \in Nodes : CallLog(a)
    \/ \E a, b \in Nodes : CallPow(a, b)
    \/ \E a, b \in Nodes : CallMax(a, b)
    \/ CallCalcDerivs

Spec == Init /\ [][Next]_vars


\* ------------------------------------------------- engine: the claims
Out == Len(aad_stack)
JustCalculated == last.op = "calc" /\ ~last.threw
\* The first backward pass of a session has just run.
FirstPass == JustCalculated /\ calcs = 1

Range(seq) == {seq[i] : i \in 1..Len(seq)}

\* Node i is the last node of st or an ancestor of it through parent links.
RECURSIVE Reaches(_, _)
Reaches(st, i) ==
    \/ i = Len(st)
    \/ \E c \in (i + 1)..Len(st) : i \in Range(st[c].parents) /\ Reaches(st, c)

\* d(last node)/d(node i) in units of 1, by the chain rule: the sum over the
\* paths from i to the last node of the product of the local derivatives.
\* For tapes whose values and local derivatives are whole numbers.
RECURSIVE PathSum(_, _), ChildSum(_, _, _)
PathSum(st, i) == IF i = Len(st) THEN 1 ELSE ChildSum(st, i, i + 1)
ChildSum(st, i, c) ==
    IF c > Len(st) THEN 0
    ELSE LET slot(s) == IF s <= Len(st[c].parents) /\ st[c].parents[s] = i
                        THEN (st[c].ddparents[s].v \div Q) * PathSum(st, c)
                        ELSE 0
         IN  slot(1) + slot(2) + ChildSum(st, i, c + 1)

\* C1: after the one backward pass of a session built from constant, add,
\* subtract and multiply, every node with a parent-chain path to the output
\* (the last node) has derivative equal to the exact partial derivative
\* d(output)/d(node), the sum over all paths of the products of the local
\* derivatives.
C1_ExactDerivatives ==
    (FirstPass /\ arith) =>
        \A i \in Nodes :
            Reaches(aad_stack, i) =>
                aad_stack[i].derivative = Num(Q * PathSum(aad_stack, i))

\* The same when every node of the tape feeds the output: the backward pass
\* is exact then, so C1 fails through the nodes that do not feed it.
ExactWhenAllFeedOutput ==
    (FirstPass /\ arith /\ \A i \in Nodes : Reaches(aad_stack, i)) =>
        \A i \in Nodes :
            aad_stack[i].derivative = Num(Q * PathSum(aad_stack, i))

\* C2: after the backward pass, every node that is not reachable from the
\* output has derivative absent or 0, also when it has parents, and so have
\* those parents.
C2_UnreachableZero ==
    FirstPass =>
        \A i \in Nodes :
            ~Reaches(aad_stack, i) =>
                aad_stack[i].derivative \in {Undefined, Zero}

\* C5: aad_div with a zero divisor throws and leaves the tape as it was;
\* with a nonzero divisor it appends exactly one node, with parents (a, b).
C5_DivideChecksFirst ==
    [][last'.op = "div" =>
        IF aad_stack[last'.b].value = Zero
        THEN last'.threw /\ aad_stack' = aad_stack
        ELSE /\ ~last'.threw
             /\ Len(aad_stack') = Len(aad_stack) + 1
             /\ SubSeq(aad_stack', 1, Len(aad_stack)) = aad_stack
             /\ aad_stack'[Len(aad_stack')].parents = <<last'.a, last'.b>>
             /\ last'.ret = Len(aad_stack')]_vars

C5_Witness ==
    /\ last.op = "div" /\ last.threw
    /\ aad_stack[last.b].value = Zero
    /\ aad_stack[last.a].value # Zero

\* C7: aad_pow with a zero base appends exactly one node, a leaf of value 0
\* with no parents, and returns it, whatever the exponent; a backward pass
\* propagates nothing through it.  With a nonzero base and no failure it
\* appends log(a), multiply(b, log(a)) and exp of that product, in this
\* order, and returns the exp node, the last node of the tape.
C7_Power ==
    [][last'.op = "pow" =>
        LET n == Len(aad_stack)
            a == last'.a
            b == last'.b
            new == aad_stack'
        IN  IF aad_stack[a].value = Zero
            THEN /\ ~last'.threw
                 /\ new = Append(aad_stack,
                        [value |-> Zero, parents |-> <<>>, ddparents |-> <<>>,
                         derivative |-> Undefined])
                 /\ last'.ret = n + 1
                 /\ ChainRule(Seed(new), n + 1, 1) = Seed(new)
            ELSE ~last'.threw =>
                 /\ Len(new) = n + 3
                 /\ SubSeq(new, 1, n) = aad_stack
                 /\ new[n + 1].parents = <<a>>
                 /\ new[n + 1].value = Math_log(aad_stack[a].value)
                 /\ new[n + 2].parents = <<b, n + 1>>
                 /\ new[n + 2].value = f_mul(aad_stack[b].value, new[n + 1].value)
                 /\ new[n + 3].parents = <<n + 2>>
                 /\ new[n + 3].value = Math_exp(new[n + 2].value)
                 /\ last'.ret = n + 3]_vars

C7_Witness ==
    /\ last.op = "pow" /\ ~last.threw
    /\ aad_stack[last.a].value = Zero
    /\ aad_stack[last.b].value = Zero
    /\ last.ret = Len(aad_stack)

\* The other case of C7: a nonzero base, three nodes appended.
PowThreeNodes ==
    /\ last.op = "pow" /\ ~last.threw
    /\ aad_stack[last.a].value # Zero
    /\ last.a # last.b

\* C8: every node of the tape is strictly after all of its parents, so in
\* the reverse sweep of aad_calc_derivs a node's derivative is final (all
\* its children have been processed) when the sweep reads it.
C8_ParentsFirst ==
    /\ \A n \in Nodes : \A p \in Range(aad_stack[n].parents) : p \in 1..(n - 1)
    /\ Out > 0 =>
        LET done == Walk(Seed(aad_stack), Out, 1)
        IN  \A n \in Nodes :
                Walk(Seed(aad_stack), Out, n + 1)[n].derivative
                    = done[n].derivative

C8_Witness ==
    /\ JustCalculated
    /\ \E n \in Nodes : \E c1, c2 \in Nodes :
        /\ c1 < c2
        /\ n \in Range(aad_stack[c1].parents)
        /\ n \in Range(aad_stack[c2].parents)
        /\ c1 \in Range(aad_stack[c2].parents)

\* What a node records at creation.
Recorded(node) ==
    [value |-> node.value, parents |-> node.parents, ddparents |-> node.ddparents]

\* C9: between two aad_begin calls the tape is append-only and its nodes are
\* frozen: a constructor only appends and leaves the existing nodes as they
\* are, aad_calc_derivs keeps the length and writes only derivative fields,
\* and only aad_begin empties the tape.
C9_AppendOnly ==
    [][/\ last'.op # "begin" =>
            /\ Len(aad_stack') >= Len(aad_stack)
            /\ \A i \in Nodes : Recorded(aad_stack'[i]) = Recorded(aad_stack[i])
       /\ last'.op \notin {"begin", "calc"} =>
            SubSeq(aad_stack', 1, Len(aad_stack)) = aad_stack
       /\ last'.op = "calc" => Len(aad_stack') = Len(aad_stack)
       /\ (Len(aad_stack) > 0 /\ Len(aad_stack') = 0) => last'.op = "begin"
      ]_vars

C9_Witness ==
    /\ JustCalculated
    /\ Out >= 3
    /\ \E i \in Nodes : i < Out /\ aad_stack[i].derivative # Undefined


\* ------------------------------------------------------ vector utilities
\* vec.map(y => x * y)
vec_scale(vec, k) == [i \in 1..Len(vec) |-> f_mul(k, vec[i])]

\* vec1.map((x,i) => x + vec2[i]), for vectors of one length
vec_add_throws(vec1, vec2) == Len(vec1) # Len(vec2)
vec_add(vec1, vec2) == [i \in 1..Len(vec1) |-> f_add(vec1[i], vec2[i])]

\* t after the first i passes of the loop t += vec[i] * vec[i]
RECURSIVE SumSquares(_, _)
SumSquares(vec, i) ==
    IF i = 0 THEN Zero
    ELSE f_add(SumSquares(vec, i - 1), f_mul(vec[i], vec[i]))

vec_norm(vec) == Math_sqrt(SumSquares(vec, Len(vec)))

vec_equal(vec1, vec2) ==
    /\ Len(vec1) = Len(vec2)
    /\ \A i \in 1..Len(vec1) : f_eq(vec1[i], vec2[i])

\* ------------------------------------------- gradient_descent_minimize
\* 1e-15 * Math.abs(y): three divisions by 10^5, 10^15 being no 32-bit number.
Tolerance(yv) ==
    LET a == f_abs(yv)
    IN  IF IsNum(a)
        THEN Num(RoundDiv(RoundDiv(RoundDiv(a.v, 100000), 100000), 100000))
        ELSE a

\* Terminate with a fault: the cap is tested with > in place of >=.
Terminate_late(st, nm, yv, it, mx) ==
    f_le(f_mul(st, nm), Tolerance(yv)) \/ it > mx

\* step * norm <= 1e-15 * Math.abs(y) || iter >= max_iter
Terminate(st, nm, yv, it, mx) ==
    f_le(f_mul(st, nm), Tolerance(yv)) \/ it >= mx

\* vec_add(x, vec_scale(direction, step / norm)), direction = vec_scale(dy, -1)
TrialPoint(xv, dyv, st, nm) ==
    vec_add(xv, vec_scale(vec_scale(dyv, f_neg(One)), f_div(st, nm)))

\* Accept with a fault: the decrease is taken with the wrong sign.
Accept_increase(yv, nyv, st, nm, xv, nxv) ==
    \/ f_gt(f_sub(nyv, yv), f_mul(f_scale(st, 1, 10), nm))
    \/ vec_equal(xv, nxv)

\* y - new_y > .1 * step * norm || vec_equal(x, new_x)
Accept(yv, nyv, st, nm, xv, nxv) ==
    \/ f_gt(f_sub(yv, nyv), f_mul(f_scale(st, 1, 10), nm))
    \/ vec_equal(xv, nxv)

\* step *= .5
Shrink(st) == f_scale(st, 1, 2)
\* step *= 1.1
Grow(st) == f_scale(st, 11, 10)

\* The objective f is the caller's: any function from points to
\* [value, gradient] with the gradient as long as the point, or one that
\* throws.  Its results are drawn from these values.
YVals == {Zero, One, NaN}
GVals == {Zero, One, NaN}
Gradients(n) == [1..n -> GVals]
Guesses == {<<One>>, <<Zero, One>>}
Unknown == <<>>

Bump(n, cap) == IF n < cap THEN n + 1 ELSE n

\* f(p) may return yv (and gradient g, when the call reads it): a function
\* of its argument returns what it returned there before.
MayReturn(p, yv, g) ==
    (f_det /\ p \in DOMAIN f_tab) =>
        /\ f_tab[p].y = yv
        /\ (g # Unknown /\ f_tab[p].dy # Unknown) => f_tab[p].dy = g

Remember(p, yv, g) ==
    IF ~f_det THEN f_tab
    ELSE [q \in DOMAIN f_tab \cup {p} |->
            IF q = p
            THEN [y |-> yv,
                  dy |-> IF g = Unknown /\ p \in DOMAIN f_tab
                         THEN f_tab[p].dy ELSE g]
            ELSE f_tab[q]]

\* The call f(x), up to the return or the entry of the line search.
OuterStep ==
    /\ pc = "outer"
    /\ \E yv \in YVals : \E g \in Gradients(Len(x)) :
        /\ MayReturn(x, yv, g)
        /\ f_tab' = Remember(x, yv, g)
        /\ y' = yv
        /\ dy' = g
        /\ norm' = vec_norm(vec_scale(g, f_neg(One)))
        /\ y_guess' = IF iter = 0 THEN yv ELSE y_guess
    /\ iter' = iter + 1
    /\ f_calls' = Bump(f_calls, CallCap)
    /\ outer' = outer + 1
    /\ pc' = IF Terminate(step, norm', y', iter', max_iter)
             THEN "returned" ELSE "inner"
    /\ rejects' = 0
    /\ mlast' = "outer"
    /\ UNCHANGED <<f_det, guess, max_iter, step, x, new_x, new_y, moves>>
    /\ UNCHANGED engine_vars

\* f(x) throws: nothing catches it.
OuterRaise ==
    /\ pc = "outer"
    /\ pc' = "raised"
    /\ f_calls' = Bump(f_calls, CallCap)
    /\ mlast' = "raise"
    /\ UNCHANGED <<f_det, f_tab, guess, max_iter, iter, step, x, y, dy, norm,
                   new_x, new_y, y_guess, outer, moves, rejects>>
    /\ UNCHANGED engine_vars

\* RaiseInTrial with a fault: the failure is caught, the step halved, the
\* trial repeated.
RaiseInTrial_retries ==
    /\ pc' = "inner"
    /\ step' = f_scale(step, 1, 2)
    /\ rejects' = Bump(rejects, RejectCap)
    /\ mlast' = "raise"
    /\ UNCHANGED <<x, new_y, moves, f_tab>>

\* f(new_x) throws: nothing catches it.
RaiseInTrial ==
    /\ pc' = "raised"
    /\ mlast' = "raise"
    /\ UNCHANGED <<step, x, new_y, moves, rejects, f_tab>>

\* One pass of the line search: the trial point, f(new_x), the test.
Trial(nyv) ==
    /\ MayReturn(new_x', nyv, Unknown)
    /\ f_tab' = Remember(new_x', nyv, Unknown)
    /\ new_y' = nyv
    /\ IF Accept(y, nyv, step, norm, x, new_x')
       THEN /\ step' = Grow(step)
            /\ x' = new_x'
            /\ moves' = moves + 1
            /\ pc' = "outer"
            /\ mlast' = "accept"
            /\ UNCHANGED rejects
       ELSE /\ step' = Shrink(step)
            /\ rejects' = Bump(rejects, RejectCap)
            /\ pc' = "inner"
            /\ mlast' = "reject"
            /\ UNCHANGED <<x, moves>>

TrialStep ==
    /\ pc = "inner"
    /\ ~vec_add_throws(x, dy)
    /\ new_x' = TrialPoint(x, dy, step, norm)
    /\ f_calls' = Bump(f_calls, CallCap)
    /\ \E nyv \in YVals : Trial(nyv)
    /\ UNCHANGED <<f_det, guess, max_iter, iter, y, dy, norm, y_guess, outer>>
    /\ UNCHANGED engine_vars

TrialRaise ==
    /\ pc = "inner"
    /\ ~vec_add_throws(x, dy)
    /\ new_x' = TrialPoint(x, dy, step, norm)
    /\ f_calls' = Bump(f_calls, CallCap)
    /\ RaiseInTrial
    /\ UNCHANGED <<f_det, guess, max_iter, iter, y, dy, norm, y_guess, outer>>
    /\ UNCHANGED engine_vars

\* The entry of gradient_descent_minimize(f, guess, max_iter).
MinInit ==
    /\ aad_stack = <<>> /\ calcs = 0 /\ arith = TRUE
    /\ last = [op |-> "begin", a |-> 0, b |-> 0, threw |-> FALSE, ret |-> 0]
    /\ pc = "outer"
    /\ f_det \in BOOLEAN
    /\ f_tab = <<>>
    /\ guess \in Guesses
    /\ max_iter \in 1..MaxIter
    /\ iter = 0
    /\ step = One
    /\ x = guess
    /\ y = Undefined /\ dy = <<>> /\ norm = Undefined
    /\ new_x = <<>> /\ new_y = Undefined
    /\ y_guess = Undefined
    /\ f_calls = 0 /\ outer = 0 /\ moves = 0 /\ rejects = 0
    /\ mlast = "none"

MinNext == OuterStep \/ OuterRaise \/ TrialStep \/ TrialRaise

MinSpec == MinInit /\ [][MinNext]_vars


\* ---------------------------------------------- minimizer: the claims
Ended == pc \in {"returned", "raised"}

\* The trial point is NaN: the gradient holds a NaN, or it is zero where
\* the objective is NaN (step / 0 is Infinity, and Infinity * 0 is NaN).
NaNTrialPoint ==
    pc = "inner" /\ \E i \in 1..Len(x) : isNaN(TrialPoint(x, dy, step, norm)[i])

\* C3: every call of gradient_descent_minimize with an objective that does
\* not throw ends and returns a point: the line search always leaves its
\* loop, by a sufficient decrease or, after repeated halving of step, by
\* new_x == x, so that a trial made with the step halved down to zero is the
\* last of its line search; and at the return
\* step * norm <= 1e-15 * |y| or iter >= max_iter.
C3_Terminates ==
    /\ [][(pc = "inner" /\ step = Zero) => pc' # "inner"]_vars
    /\ [](pc = "returned" =>
            (f_le(f_mul(step, norm), Tolerance(y)) \/ iter >= max_iter))

\* The same for the line searches whose trial point is a point: they end,
\* and none rejects RejectCap trials.
EndsUnlessNaNTrialPoint ==
    /\ [][(pc = "inner" /\ step = Zero /\ ~NaNTrialPoint) => pc' # "inner"]_vars
    /\ []((pc = "inner" /\ ~NaNTrialPoint) => rejects < RejectCap)

\* A line search that never ends: its counter of rejected trials is full.
LineSearchSpins == pc = "inner" /\ rejects = RejectCap /\ step = Zero

\* C4: at most max_iter evaluations at the current point and at most
\* max_iter - 1 replacements of x; with max_iter = 1 the call returns guess
\* after one call of f and no trial, whatever f returned.
C4_IterationCap ==
    /\ outer <= max_iter
    /\ moves <= max_iter - 1
    /\ max_iter = 1 =>
        /\ pc # "inner"
        /\ pc = "returned" =>
            /\ outer = 1 /\ f_calls = 1 /\ moves = 0
            /\ x = guess /\ new_x = <<>>

C4_Witness ==
    /\ pc = "returned" /\ max_iter = 1
    /\ ~f_le(f_mul(step, norm), Tolerance(y))

\* The cap ends a longer run too.
CapEndsRun ==
    /\ pc = "returned" /\ max_iter = MaxIter /\ iter = max_iter
    /\ moves = max_iter - 1
    /\ ~f_le(f_mul(step, norm), Tolerance(y))

\* C6: when the objective throws, at the current point or at a trial point,
\* the call ends there: the step is not halved, no trial is repeated, f is
\* not called again and no point is returned.
C6_FailureAborts ==
    /\ [][mlast' = "raise" =>
            /\ pc' = "raised"
            /\ step' = step /\ x' = x /\ iter' = iter]_vars
    /\ [](pc = "raised" => ~ENABLED MinNext)

C6_Witness ==
    pc = "raised" /\ mlast = "raise" /\ rejects >= 1 /\ moves >= 1

\* C10: for an objective that is a function of its argument, the point only
\* changes to the trial point that ended the line search, which gave a
\* sufficient decrease at the step of that moment (so a smaller value) or
\* equals the point; the value at the current point never rises, and the
\* value at the returned point is not above the value at guess.  In a line
\* search the step is halved once per rejected trial and grown by 1.1 once.
C10_NeverUphill ==
    /\ [][/\ mlast' = "accept" =>
                /\ x' = new_x'
                /\ step' = f_scale(step, 11, 10)
                /\ \/ /\ f_gt(f_sub(y, new_y'),
                              f_mul(f_scale(step, 1, 10), norm))
                      /\ f_lt(new_y', y)
                   \/ vec_equal(x, x')
          /\ mlast' = "reject" => step' = f_scale(step, 1, 2) /\ x' = x
          /\ mlast' \in {"outer", "raise"} => step' = step /\ x' = x
          /\ (f_det /\ mlast' = "outer" /\ iter >= 1) =>
                (y' = y \/ f_lt(y', y))
         ]_vars
    /\ []((f_det /\ pc = "returned") => (y = y_guess \/ f_lt(y, y_guess)))

C10_Witness ==
    /\ f_det /\ pc = "returned"
    /\ moves >= 2
    /\ f_lt(y, y_guess)
    /\ ~vec_equal(x, guess)

====
